---- MODULE Spec2Model ----
(***************************************************************************)
(* Model of HPHP::Resumable (hphp/runtime/vm/resumable.h): the header of   *)
(* a resumable frame, its Create / Destroy templates and its accessors.    *)
(*                                                                         *)
(* Representation choices:                                                 *)
(*  - Memory is modelled by cells: one cell per local slot (TypedValue)    *)
(*    and one cell per ActRec field; wordcpy copies runs of cells.         *)
(*  - The 64-bit word m_offsetAndSize is kept as four 16-bit limbs, low    *)
(*    limb first (x86-64, little endian), so that the shift, the sign      *)
(*    extension of the int32 Offset and the bitwise or are computed as     *)
(*    the machine computes them.                                           *)
(*  - A size_t value is represented by the signed 64-bit integer that is   *)
(*    congruent to it modulo 2^64; pointer arithmetic is modulo 2^64, so   *)
(*    sums and differences of representatives are exact.                   *)
(*  - assert() is compiled in when debugBuild holds and compiled out       *)
(*    otherwise; a failing assert aborts the process.                      *)
(*  - MM().objMalloc / MM().objFree are not part of resumable.h; they are  *)
(*    taken as the allocator contract describes them: no bookkeeping of    *)
(*    their own.  A release that breaks that contract (wrong size, block   *)
(*    not out) leaves the heap in a state the code does not define; the    *)
(*    model records the release, sets heapCorrupt and follows the process  *)
(*    no further.                                                          *)
(*  - Callers pass numSlots = the slot count of fp's function; the asserts *)
(*    of Create are its contract, and calls that break one of them are     *)
(*    made as well.                                                        *)
(***************************************************************************)
EXTENDS Integers, Sequences, FiniteSets, TLC

VARIABLES
  debugBuild,   \* TRUE: assert() is active; FALSE: NDEBUG, assert() is a no-op
  fault,        \* NoFault, or the record of the abort that ended the process
  allocd,       \* bases of the blocks the memory manager currently has out
  mem,          \* contents of the heap, by block base
  frames,       \* history: per block base, <<>> or <<facts about the frame made there>>
  heapCorrupt,  \* a release broke the memory manager's contract
  lastCall,     \* the most recent call and what it returned or released
  nOps          \* number of calls made so far

vars == <<debugBuild, fault, allocd, mem, frames, heapCorrupt, lastCall, nOps>>

----------------------------------------------------------------------------
(* Bounds of the model *)

MaxSlots == 1
MaxOps == 3
NumBlocks == 2

----------------------------------------------------------------------------
(* Sizes and layout *)

TypedValueSize == 16
ResumableNodeSize == 16
ActRecSize == 48
ResumeAddrSize == 8
OffsetAndSizeSize == 8
ResumableAlign == 16

RoundUp(n, a) == ((n + a - 1) \div a) * a

\* sizeof(Resumable): m_actRec, m_resumeAddr, the union, aligned to 16
SizeofResumable ==
  RoundUp(ActRecSize + ResumeAddrSize + OffsetAndSizeSize, ResumableAlign)

\* the members of Resumable in declaration order, and their sizes
ResumableMembers ==
  << [name |-> "m_actRec",        size |-> ActRecSize],
     [name |-> "m_resumeAddr",    size |-> ResumeAddrSize],
     [name |-> "m_offsetAndSize", size |-> OffsetAndSizeSize] >>
\* offsetof(Resumable, member i)
MemberOffset[i \in 1..Len(ResumableMembers)] ==
  IF i = 1 THEN 0 ELSE MemberOffset[i - 1] + ResumableMembers[i - 1].size
MemberIndex(name) ==
  CHOOSE i \in 1..Len(ResumableMembers) : ResumableMembers[i].name = name
arOff == MemberOffset[MemberIndex("m_actRec")]
resumeAddrOff == MemberOffset[MemberIndex("m_resumeAddr")]
resumeOffsetOff == MemberOffset[MemberIndex("m_offsetAndSize")]
dataOff == SizeofResumable

\* The fields of ActRec in address order; m_sfp and m_savedRip precede m_func.
ActRecFields == <<"m_sfp", "m_savedRip", "m_func", "m_flags", "m_varEnv">>
NumActRecCells == Len(ActRecFields)
FieldIndex(name) == CHOOSE i \in 1..NumActRecCells : ActRecFields[i] = name
\* offsetof(ActRec, m_func), in cells
OffsetofFunc == FieldIndex("m_func") - 1

\* what a cell of storage holds before anything was written to it
Uninit == <<"uninit">>
\* no abort happened
NoFault == [op |-> "none", line |-> 0, log |-> <<>>]
NullFunc == "nullfunc"
NullVarEnv == "nullvarenv"

----------------------------------------------------------------------------
(* Functions (Func) known to the runtime *)

\* base, past: the bytecode range; numSlots: the locals and iterators of a
\* frame of the function, in slots
\* the largest value of an int32 (Offset, m_size)
Int32Max == 2147483647

FuncTable ==
  [ F |-> [base |-> 0, past |-> 100, isResumable |-> TRUE,  mayUseVV |-> TRUE,
           numSlots |-> MaxSlots],
    G |-> [base |-> 10, past |-> 60, isResumable |-> TRUE,  mayUseVV |-> FALSE,
           numSlots |-> 0],
    H |-> [base |-> 0, past |-> 100, isResumable |-> FALSE, mayUseVV |-> FALSE,
           numSlots |-> MaxSlots],
    \* a function whose bytecode reaches the end of the Offset range
    W |-> [base |-> 0, past |-> Int32Max, isResumable |-> TRUE,
           mayUseVV |-> FALSE, numSlots |-> 0] ]

FuncIds == DOMAIN FuncTable

\* Func::contains(Offset)
contains(f, off) == FuncTable[f].base <= off /\ off < FuncTable[f].past

----------------------------------------------------------------------------
(* 64-bit word arithmetic on 16-bit limbs *)

Limb == 65536

RECURSIVE BitOr(_, _, _)
BitOr(a, b, n) ==
  IF n = 0 THEN 0
  ELSE LET x == a % 2
           y == b % 2
       IN  (x + y - x * y) + 2 * BitOr(a \div 2, b \div 2, n - 1)

Or64(v, w) == [i \in 1..4 |-> BitOr(v[i], w[i], 16)]

\* conversion of a signed 32-bit value to a 64-bit unsigned one (sign extension)
SignExtend32(o) ==
  LET ext == IF o < 0 THEN Limb - 1 ELSE 0
  IN  <<o % Limb, (o \div Limb) % Limb, ext, ext>>

\* a size_t given by its signed representative, as limbs
SizeTLimbs(s) ==
  LET ext == IF s < 0 THEN Limb - 1 ELSE 0
  IN  <<s % Limb, (s \div Limb) % Limb, ext, ext>>

\* a shift by 16 bits instead of 32
ShiftLeft16(w) == <<0, w[1], w[2], w[3]>>

\* w << 32 on a 64-bit word: the two high limbs fall off
ShiftLeft32(w) == <<0, 0, w[1], w[2]>>

\* the signed 32-bit value held by two limbs
Int32Of(lo, hi) ==
  IF hi >= Limb \div 2 THEN (hi - Limb) * Limb + lo ELSE hi * Limb + lo

\* a packing that forgets the shift: (totalSize | resumeOffset)
PackWithoutShift(totalSize, resumeOffset) ==
  Or64(SizeTLimbs(totalSize), SignExtend32(resumeOffset))

\* (totalSize << 32 | resumeOffset), resumeOffset being an int32
PackOffsetAndSize(totalSize, resumeOffset) ==
  Or64(ShiftLeft32(SizeTLimbs(totalSize)), SignExtend32(resumeOffset))

\* the union: m_resumeOffset is the low half, m_size the high half
m_resumeOffset(w) == Int32Of(w[1], w[2])
m_size(w) == Int32Of(w[3], w[4])

\* a store through the whole union: m_offsetAndSize = resumeOffset
StoreOffsetAndSize(w, o) == SignExtend32(o)

\* storing an int32 into m_resumeOffset leaves the m_size half alone
StoreResumeOffset(w, o) == <<o % Limb, (o \div Limb) % Limb, w[3], w[4]>>

----------------------------------------------------------------------------
(* Memory *)

HeapBases == {i * 1024 : i \in 1..NumBlocks}

\* wordcpy(dst + dstOff, src + srcOff, n) on runs of cells
wordcpy(dst, dstOff, src, srcOff, n) ==
  [i \in 1..Len(dst) |->
     IF i > dstOff /\ i <= dstOff + n THEN src[srcOff + (i - dstOff)]
     ELSE dst[i]]

\* storage as MM().objMalloc hands it out: nothing in it is initialised
FreshBlock(numSlots) ==
  [ node          |-> [framesize |-> Uninit, kind |-> Uninit],
    frame         |-> [i \in 1..(numSlots + NumActRecCells) |-> Uninit],
    m_resumeAddr  |-> Uninit,
    m_offsetAndSize |-> Uninit ]

\* Views of a block
LocalsOf(blk) == SubSeq(blk.frame, 1, Len(blk.frame) - NumActRecCells)
ActRecOf(blk) == SubSeq(blk.frame, Len(blk.frame) - NumActRecCells + 1, Len(blk.frame))
ArField(ar, name) == ar[FieldIndex(name)]

----------------------------------------------------------------------------
(* Activation records *)

FlagsCell(resumed) == <<"flags", resumed>>
FuncCell(f) == <<"func", f>>
VarEnvCell(v) == <<"varenv", v>>

\* ActRec::func(), ActRec::resumed(), ActRec::hasVarEnv()
func(ar) == ArField(ar, "m_func")[2]
resumed(ar) == ArField(ar, "m_flags")[2]
hasVarEnv(ar) == ArField(ar, "m_varEnv")[2] # NullVarEnv

\* a setResumed() that leaves the flag as it is
setResumedSkipped(fr) == fr

\* ActRec::setResumed() on the record that ends the run of cells fr
setResumed(fr) ==
  [fr EXCEPT ![Len(fr) - NumActRecCells + FieldIndex("m_flags")] = FlagsCell(TRUE)]

\* (resumeAddr, resumeOffset) pairs inside the bytecode of F and of G, and
\* pairs outside of it (below the base, and at past())
ResumePointTable ==
  << [addr |-> <<"tca", "A">>, off |-> 12], [addr |-> <<"tca", "B">>, off |-> 55] >>
ResumePoints == {ResumePointTable[i] : i \in DOMAIN ResumePointTable}
BadResumePoints ==
  { [addr |-> <<"tca", "A">>, off |-> -1], [addr |-> <<"tca", "B">>, off |-> 100] }

\* The frames a caller can pass as fp: the function it runs, whether it is
\* already resumed (suspended in a heap block), whether it has a VarEnv, and
\* the point of its bytecode where it suspends.
CallerFrameTable ==
  << [func |-> "F",      resumed |-> FALSE, varEnv |-> "ve1",      at |-> 1],
     [func |-> "F",      resumed |-> FALSE, varEnv |-> NullVarEnv, at |-> 2],
     [func |-> "G",      resumed |-> FALSE, varEnv |-> NullVarEnv, at |-> 1],
     [func |-> "F",      resumed |-> TRUE,  varEnv |-> "ve4",      at |-> 2],
     [func |-> "H",      resumed |-> FALSE, varEnv |-> NullVarEnv, at |-> 1],
     [func |-> NullFunc, resumed |-> FALSE, varEnv |-> NullVarEnv, at |-> 1],
     [func |-> "W",      resumed |-> FALSE, varEnv |-> NullVarEnv, at |-> 1] >>

CallerFrameIds == DOMAIN CallerFrameTable

\* the resume point the caller of Create passes for the frame
SuspendPoint(id) == ResumePointTable[CallerFrameTable[id].at]

CallerActRec(id) ==
  << <<"sfp", id>>, <<"rip", id>>, FuncCell(CallerFrameTable[id].func),
     FlagsCell(CallerFrameTable[id].resumed),
     VarEnvCell(CallerFrameTable[id].varEnv) >>

\* The memory that ends with the ActRec fp points to: the slots below fp,
\* then the ActRec itself.
CallerImage(id) == [i \in 1..MaxSlots |-> <<"local", id, i>>] \o CallerActRec(id)

ImageAt(fp) == IF fp[1] = "stack" THEN CallerImage(fp[2]) ELSE mem[fp[2]].frame
ArAt(fp) == LET im == ImageAt(fp)
            IN  SubSeq(im, Len(im) - NumActRecCells + 1, Len(im))

----------------------------------------------------------------------------
(* Resumable::Create<clone, objSize, mayUseVV>(fp, numSlots, resumeAddr,   *)
(*                                             resumeOffset)               *)

\* sizeof(T) of the objects allocated inline after the Resumable
ObjSizes == {40, 64}

\* the asserts at the head of Create without the one on resumeOffset
FirstFailedAssertNoBounds(c) ==
  LET ar == ArAt(c.fp)
  IN  IF resumed(ar) # c.clone THEN 86
      ELSE IF func(ar) = NullFunc THEN 88
      ELSE IF ~FuncTable[func(ar)].isResumable THEN 89
      ELSE 0

\* the asserts at the head of Create without the one on isResumable()
FirstFailedAssertNoResumable(c) ==
  LET ar == ArAt(c.fp)
  IN  IF resumed(ar) # c.clone THEN 86
      ELSE IF func(ar) = NullFunc THEN 88
      ELSE IF ~contains(func(ar), c.resumeOffset) THEN 90
      ELSE 0

\* the asserts at the head of Create, in order; 0 when all of them pass
FirstFailedAssert(c) ==
  LET ar == ArAt(c.fp)
  IN  IF resumed(ar) # c.clone THEN 86
      ELSE IF func(ar) = NullFunc THEN 88
      ELSE IF ~FuncTable[func(ar)].isResumable THEN 89
      ELSE IF ~contains(func(ar), c.resumeOffset) THEN 90
      ELSE 0

\* assert(mayUseVV || !(func->attrs() & AttrMayUseVV)), reached when !clone
VVAssertFails(c) ==
  LET f == func(ArAt(c.fp))
  IN  ~c.clone /\ f # NullFunc /\ ~c.mayUseVV /\ FuncTable[f].mayUseVV

\* the call meets every precondition Create asserts
MeetsContract(c) == FirstFailedAssert(c) = 0 /\ ~VVAssertFails(c)

frameSizeOf(numSlots) == numSlots * TypedValueSize

\* a total that leaves the ResumableNode out
totalSizeWithoutNode(numSlots, objSize) ==
  frameSizeOf(numSlots) + SizeofResumable + objSize

totalSizeOf(numSlots, objSize) ==
  ResumableNodeSize + frameSizeOf(numSlots) + SizeofResumable + objSize

\* frame = node + 1; resumable = frame + frameSize: the address of the
\* Resumable in the block at base b
ResumableAt(b, numSlots) == b + ResumableNodeSize + frameSizeOf(numSlots)

\* resumable->actRec()
actRec(resumable) == resumable + arOff

\* a result that is the Resumable itself, not the object after it
HandleAtResumable(b, numSlots) == ResumableAt(b, numSlots)

\* resumable + 1, for the block at base b
HandleOf(b, numSlots) == ResumableAt(b, numSlots) + SizeofResumable

\* node->framesize = frameSize; node->hdr.kind = HeaderKind::ResumableFrame
WriteNode(blk, frameSize) ==
  [blk EXCEPT !.node = [framesize |-> <<"size", frameSize>>,
                        kind |-> <<"kind", "ResumableFrame">>]]

\* !clone: wordcpy(frame, fp - frameSize, frameSize + sizeof(ActRec))
CopyFrame(blk, image, numSlots) ==
  [blk EXCEPT !.frame =
     wordcpy(@, 0, image, Len(image) - NumActRecCells - numSlots,
             numSlots + NumActRecCells)]

\* a clone copy that takes the whole ActRec, linkage included
CopyWholeActRec(blk, image, numSlots) ==
  [blk EXCEPT !.frame =
     wordcpy(@, numSlots, image, Len(image) - NumActRecCells, NumActRecCells)]

\* clone: wordcpy(aRec + offset, src + offset, sizeof(ActRec) - offset)
CopyActRecTail(blk, image, numSlots) ==
  [blk EXCEPT !.frame =
     wordcpy(@, numSlots + OffsetofFunc,
             image, Len(image) - NumActRecCells + OffsetofFunc,
             NumActRecCells - OffsetofFunc)]

\* a header of which only the resume address is written
PopulateResumeAddrOnly(blk, resumeAddr, totalSize, resumeOffset) ==
  [blk EXCEPT !.m_resumeAddr = resumeAddr]

\* resumable->m_resumeAddr = ...; resumable->m_offsetAndSize = ...
PopulateResumable(blk, resumeAddr, totalSize, resumeOffset) ==
  [blk EXCEPT !.m_resumeAddr = resumeAddr,
              !.m_offsetAndSize = PackOffsetAndSize(totalSize, resumeOffset)]

\* a test that does not look at fp->hasVarEnv()
SuspendsWithoutVarEnvTest(c, attrVV) == c.mayUseVV /\ attrVV

\* mayUseVV && (func->attrs() & AttrMayUseVV) && fp->hasVarEnv();
\* attrVV is what func->attrs() & AttrMayUseVV yielded
SuspendsVarEnv(c, attrVV) ==
  c.mayUseVV /\ attrVV /\ hasVarEnv(ArAt(c.fp))

----------------------------------------------------------------------------
(* The calls of Create the model makes.  A call either meets the contract  *)
(* that the asserts of Create state, or breaks one of them.                *)

Call(fp, clone, vv, n, rp, sz) ==
  [fp |-> fp, clone |-> clone, mayUseVV |-> vv, numSlots |-> n,
   resumeAddr |-> rp.addr, resumeOffset |-> rp.off, objSize |-> sz]

\* the slot count the caller of Create passes for a frame of function f
NumSlotsOf(f) == IF f = NullFunc THEN MaxSlots ELSE FuncTable[f].numSlots

\* fresh suspends of a running frame at its suspend point
FreshCalls ==
  UNION { { Call(<<"stack", id>>, FALSE, vv,
                 NumSlotsOf(CallerFrameTable[id].func), SuspendPoint(id), sz) :
              vv \in {TRUE} \cup
                     (IF FuncTable[CallerFrameTable[id].func].mayUseVV
                      THEN {} ELSE {FALSE}),
              sz \in ObjSizes }
          : id \in 1..3 }

\* clones of a suspended frame; the clone of a frame in the heap has its slot
\* count and object size and resumes where that frame does
CloneCalls ==
  { Call(<<"stack", 4>>, TRUE, TRUE, NumSlotsOf(CallerFrameTable[4].func),
         SuspendPoint(4), sz) : sz \in ObjSizes }
  \cup
  { Call(<<"heap", b>>, TRUE, TRUE, frames[b][1].call.numSlots,
         [addr |-> mem[b].m_resumeAddr,
          off |-> m_resumeOffset(mem[b].m_offsetAndSize)],
         frames[b][1].call.objSize)
      : b \in {x \in HeapBases : frames[x] # <<>> /\ frames[x][1].live
                                   /\ frames[x][1].contract
                                   /\ contains(func(ArAt(<<"heap", x>>)),
                                         m_resumeOffset(mem[x].m_offsetAndSize))} }

ValidCalls == FreshCalls \cup CloneCalls

\* calls that break one precondition
ViolatingCalls ==
  LET rpOk == ResumePointTable[1]
      szOk == CHOOSE sz \in ObjSizes : sz = 40
  IN  \* fp->resumed() != clone
      { Call(<<"stack", 1>>, TRUE, TRUE, MaxSlots, rpOk, szOk),
        Call(<<"stack", 4>>, FALSE, TRUE, MaxSlots, rpOk, szOk) }
      \cup \* func == nullptr
      { Call(<<"stack", 6>>, FALSE, TRUE, MaxSlots, rpOk, szOk) }
      \cup \* !func->isResumable()
      { Call(<<"stack", 5>>, FALSE, TRUE, MaxSlots, rpOk, szOk) }
      \cup \* !func->contains(resumeOffset)
      { Call(<<"stack", id>>, id = 4, TRUE, MaxSlots, rp, szOk) :
          id \in {1, 4}, rp \in BadResumePoints }
      \cup \* !mayUseVV although the function has AttrMayUseVV
      { Call(<<"stack", 1>>, FALSE, FALSE, MaxSlots, rpOk, szOk) }

CreateCalls == ValidCalls \cup ViolatingCalls

\* Fresh suspends of a frame of W with totals and offsets at the edges of
\* the limbs of the packed word and of the int32 range: the object sizes
\* make totalSize one of WideTotals; the offsets -1 and past() break the
\* assert on resumeOffset.
WideTotals == {120, Limb - 1, Limb, Limb + 1, Int32Max - Limb, Int32Max}
WideOffsets == {0, 1, Limb - 1, Limb, Int32Max - 1, -1, Int32Max}
WideCalls ==
  { Call(<<"stack", 7>>, FALSE, TRUE, NumSlotsOf("W"),
         [addr |-> <<"tca", "A">>, off |-> o],
         t - ResumableNodeSize - SizeofResumable) :
      t \in WideTotals, o \in WideOffsets }

\* The outcomes of func->attrs() & AttrMayUseVV.  With func == nullptr the
\* read is undefined behaviour: the process crashes, or the read yields
\* either value.
AttrOutcomes(c) ==
  LET f == func(ArAt(c.fp))
  IN  IF c.clone \/ ~c.mayUseVV THEN {"notread"}
      ELSE IF f = NullFunc THEN {"crash", "set", "clear"}
      ELSE IF FuncTable[f].mayUseVV THEN {"set"} ELSE {"clear"}

\* the record of a call: the frame it was made on, its arguments, what it
\* returned and what it released to the memory manager
CallRecord(op, b, arg, ret, released) ==
  [op |-> op, frame |-> b, arg |-> arg, ret |-> ret, released |-> released]

\* The block Create leaves behind and the steps it took, given the outcome
\* of the attrs read.
CreateEffect(c, b, attr) ==
  LET frameSize == frameSizeOf(c.numSlots)
      totalSize == totalSizeOf(c.numSlots, c.objSize)
      image     == ImageAt(c.fp)
      actRecPtr == actRec(ResumableAt(b, c.numSlots))
      blk1      == WriteNode(FreshBlock(c.numSlots), frameSize)
      blk2      == IF c.clone
                   THEN CopyActRecTail(blk1, image, c.numSlots)
                   ELSE [CopyFrame(blk1, image, c.numSlots)
                           EXCEPT !.frame = setResumed(@)]
      suspends  == ~c.clone /\ SuspendsVarEnv(c, attr = "set")
      log2      == <<<<"objMalloc", totalSize>>, <<"node">>>>
                   \o (IF c.clone THEN <<<<"wordcpy", "actRecTail">>>>
                       ELSE <<<<"wordcpy", "frame">>, <<"setResumed">>>>)
      \* assert at line 113 aborts here in a debug build; the null read crashes
      stopped   == (debugBuild /\ VVAssertFails(c)) \/ attr = "crash"
      log3      == log2 \o (IF suspends /\ ~stopped
                            THEN <<<<"suspend", c.fp, actRecPtr>>>> ELSE <<>>)
      blk3      == IF stopped THEN blk2
                   ELSE PopulateResumable(blk2, c.resumeAddr, totalSize,
                                          c.resumeOffset)
  IN  [ blk     |-> blk3,
        stopped |-> stopped,
        line    |-> IF attr = "crash" /\ ~(debugBuild /\ VVAssertFails(c))
                    THEN 115 ELSE 113,
        log     |-> IF stopped THEN log3
                    ELSE log3 \o <<<<"header">>, <<"return", HandleOf(b, c.numSlots)>>>>,
        total   |-> totalSize ]

\* what the model remembers of a frame: the call that made it and what was
\* done through its handle since
FrameFacts(c, b, eff) ==
  [ call      |-> c,
    base      |-> b,
    handle    |-> HandleOf(b, c.numSlots),
    requested |-> eff.total,
    contract  |-> MeetsContract(c),
    srcImage  |-> ImageAt(c.fp),
    log       |-> eff.log,
    live      |-> TRUE,
    set       |-> <<>>,       \* the last two setResumeAddr calls
    teardowns |-> 0 ]

\* MM().objMalloc(totalSize): the free block at the lowest address
objMalloc ==
  CHOOSE b \in HeapBases \ allocd : \A x \in HeapBases \ allocd : b <= x

Create(c, b, attr) ==
  /\ fault = NoFault /\ ~heapCorrupt
  /\ nOps < MaxOps
  /\ b = objMalloc
  /\ nOps' = nOps + 1
  /\ UNCHANGED <<debugBuild, heapCorrupt>>
  /\ lastCall' = CallRecord("Create", b, <<c>>, <<>>, <<>>)
  /\ IF debugBuild /\ FirstFailedAssert(c) # 0
     THEN /\ fault' = [op |-> "Create", line |-> FirstFailedAssert(c), log |-> <<>>]
          /\ UNCHANGED <<allocd, mem, frames>>
     ELSE LET eff == CreateEffect(c, b, attr)
          IN  /\ allocd' = allocd \cup {b}
              /\ mem' = [mem EXCEPT ![b] = eff.blk]
              /\ IF eff.stopped
                 THEN /\ fault' = [op |-> "Create", line |-> eff.line, log |-> eff.log]
                      /\ frames' = [frames EXCEPT ![b] = <<>>]
                 ELSE /\ fault' = fault
                      /\ frames' = [frames EXCEPT ![b] = <<FrameFacts(c, b, eff)>>]

----------------------------------------------------------------------------
(* Accessors *)

\* Resumable::resumeAddr()
resumeAddr(blk) == blk.m_resumeAddr

\* the assert of Resumable::resumeOffset()
resumeOffsetAssert(blk) ==
  LET f == func(ActRecOf(blk))
  IN  f # NullFunc /\ contains(f, m_resumeOffset(blk.m_offsetAndSize))

\* Resumable::resumeOffset()
resumeOffset(blk) == m_resumeOffset(blk.m_offsetAndSize)

\* Resumable::size(): m_size converted to size_t
size(blk) == m_size(blk.m_offsetAndSize)

LiveFrames == {b \in HeapBases : frames[b] # <<>> /\ frames[b][1].live}

\* a call of resumeOffset() on the live frame at b
QueryResumeOffset(b) ==
  /\ fault = NoFault /\ ~heapCorrupt
  /\ nOps < MaxOps
  /\ b \in LiveFrames
  /\ nOps' = nOps + 1
  /\ UNCHANGED <<debugBuild, allocd, mem, frames, heapCorrupt>>
  /\ IF debugBuild /\ ~resumeOffsetAssert(mem[b])
     THEN /\ fault' = [op |-> "resumeOffset", line |-> 148, log |-> <<>>]
          /\ lastCall' = CallRecord("resumeOffset", b, <<>>, <<>>, <<>>)
     ELSE /\ fault' = fault
          /\ lastCall' = CallRecord("resumeOffset", b, <<>>,
                                     <<resumeOffset(mem[b])>>, <<>>)

\* a store that updates the address and forgets the offset
StoreResumeAddrOnly(blk, rp) ==
  [blk EXCEPT !.m_resumeAddr = rp.addr]

\* m_resumeAddr = resumeAddr; m_resumeOffset = resumeOffset
StoreResumePoint(blk, rp) ==
  [blk EXCEPT !.m_resumeAddr = rp.addr,
              !.m_offsetAndSize = StoreResumeOffset(@, rp.off)]

\* the pairs setResumeAddr is called with: the resume points of the
\* bytecode, and one at past()
SetPoints == ResumePoints \cup {rp \in BadResumePoints : rp.off > 0}

\* Resumable::setResumeAddr(resumeAddr, resumeOffset) on the live frame at b
setResumeAddr(b, rp) ==
  /\ fault = NoFault /\ ~heapCorrupt
  /\ nOps < MaxOps
  /\ b \in LiveFrames
  /\ nOps' = nOps + 1
  /\ UNCHANGED <<debugBuild, allocd, heapCorrupt>>
  /\ lastCall' = CallRecord("setResumeAddr", b, <<rp>>, <<>>, <<>>)
  /\ IF debugBuild /\ ~(func(ActRecOf(mem[b])) # NullFunc
                        /\ contains(func(ActRecOf(mem[b])), rp.off))
     THEN /\ fault' = [op |-> "setResumeAddr", line |-> 154, log |-> <<>>]
          /\ UNCHANGED <<mem, frames>>
     ELSE /\ fault' = fault
          /\ mem' = [mem EXCEPT ![b] = StoreResumePoint(@, rp)]
          /\ frames' = [frames EXCEPT ![b][1].set =
                          IF Len(@) < 2 THEN Append(@, rp) ELSE <<@[2], rp>>]

----------------------------------------------------------------------------
(* Resumable::Destroy<T>(size, obj)                                        *)

\* a base computed from obj instead of obj + 1
DestroyBaseFromObj(obj, sizeofT, sz) == obj - sz

\* reinterpret_cast<char*>(obj + 1) - size
DestroyBase(obj, sizeofT, sz) == obj + sizeofT - sz

\* the blocks whose handle a caller holds, the frame being live or destroyed
HandedOut == {b \in HeapBases : frames[b] # <<>>}

\* the sizes a caller hands to Destroy: the one it reads from the header,
\* and one that is off by a slot
SizeArgs(b) == {size(mem[b]), size(mem[b]) + TypedValueSize}

\* MM().objFree(base, size) keeps to the memory manager's contract: the
\* block is out, and size is the size it was allocated with
ReleaseInContract(base, sz) ==
  /\ base \in allocd
  /\ frames[base] # <<>>
  /\ frames[base][1].requested = sz

\* a Destroy that hands the block back before it runs the destructor
DestroyStepsReleaseFirst(base, sz) ==
  << <<"base", base>>, <<"objFree", base, sz>>, <<"~T">> >>

\* the steps of Destroy, in the order the code takes them
DestroySteps(base, sz) ==
  << <<"base", base>>, <<"~T">>, <<"objFree", base, sz>> >>

\* Destroy(sz, obj) with obj the handle Create returned for the frame at b
Destroy(b, sz) ==
  /\ fault = NoFault /\ ~heapCorrupt
  /\ nOps < MaxOps
  /\ frames[b] # <<>>
  /\ nOps' = nOps + 1
  /\ LET fr   == frames[b][1]
         base == DestroyBase(fr.handle, fr.call.objSize, sz)
         ok   == ReleaseInContract(base, sz)
     IN  /\ lastCall' = CallRecord("Destroy", b, <<sz>>, <<>>,
                                   <<[base |-> base, size |-> sz,
                                      wasLive |-> fr.live,
                                      log |-> DestroySteps(base, sz)]>>)
         /\ frames' = [frames EXCEPT ![b][1].teardowns = @ + 1,
                                     ![b][1].live = FALSE]
         /\ allocd' = allocd \ {base}
         /\ heapCorrupt' = ~ok
  /\ UNCHANGED <<debugBuild, fault, mem>>

----------------------------------------------------------------------------
(* The system *)

Init ==
  /\ debugBuild \in BOOLEAN
  /\ fault = NoFault
  /\ allocd = {}
  /\ mem = [b \in HeapBases |-> FreshBlock(0)]
  /\ frames = [b \in HeapBases |-> <<>>]
  /\ heapCorrupt = FALSE
  /\ lastCall = CallRecord("none", 0, <<>>, <<>>, <<>>)
  /\ nOps = 0

Next ==
  \/ \E c \in CreateCalls, b \in HeapBases \ allocd :
        \E attr \in AttrOutcomes(c) : Create(c, b, attr)
  \/ \E b \in HeapBases, rp \in SetPoints : setResumeAddr(b, rp)
  \/ \E b \in HeapBases : QueryResumeOffset(b)
  \/ \E b \in HandedOut : \E sz \in SizeArgs(b) : Destroy(b, sz)

Spec == Init /\ [][Next]_vars

\* Create alone, on the calls that put wide values into the packed word
WideNext ==
  \E c \in WideCalls, b \in HeapBases \ allocd :
    \E attr \in AttrOutcomes(c) : Create(c, b, attr)

WideSpec == Init /\ [][WideNext]_vars

----------------------------------------------------------------------------
(* Properties *)

Frame(b) == frames[b][1]

\* the ActRec that was passed as fp to the Create that made the frame
SourceActRec(fr) ==
  SubSeq(fr.srcImage, Len(fr.srcImage) - NumActRecCells + 1, Len(fr.srcImage))

\* the slots below fp at the time of the Create that made the frame
SourceLocals(fr) ==
  SubSeq(fr.srcImage, Len(fr.srcImage) - NumActRecCells - fr.call.numSlots + 1,
         Len(fr.srcImage) - NumActRecCells)

\* the resume offset passed to Create lies in the bytecode of fp's function
OffsetInBounds(fr) ==
  /\ func(SourceActRec(fr)) # NullFunc
  /\ contains(func(SourceActRec(fr)), fr.call.resumeOffset)

\* C1: round-trip size law.  When Destroy is called on a live frame that a
\* contract-abiding Create made, with the size read back from the frame's
\* header, it releases the base address that Create obtained from objMalloc
\* and the number of bytes that Create requested, whatever was created, set
\* or destroyed on other frames in between.
C1_RoundTripRelease ==
  (lastCall.op = "Destroy" /\ lastCall.released # <<>>) =>
     LET fr == Frame(lastCall.frame)
         r  == lastCall.released[1]
     IN  (r.wasLive /\ fr.contract
          /\ lastCall.arg[1] = size(mem[lastCall.frame]))
         => /\ r.base = fr.base
            /\ r.size = fr.requested
            /\ ~heapCorrupt
            /\ r.log[3] = <<"objFree", fr.base, fr.requested>>

\* a frame is destroyed with its header's size while a frame created after
\* it is live in another block
C1_Witness ==
  /\ lastCall.op = "Destroy"
  /\ lastCall.released # <<>>
  /\ lastCall.released[1].wasLive
  /\ Frame(lastCall.frame).contract
  /\ Frame(lastCall.frame).call.numSlots > 0
  /\ lastCall.arg[1] = size(mem[lastCall.frame])
  /\ lastCall.released[1].base = lastCall.frame
  /\ \E b \in LiveFrames : b > lastCall.frame

\* C2: the size Create requests from objMalloc and records in the header
\* is sizeof(ResumableNode) + numSlots * sizeof(TypedValue) + sizeof(ActRec)
\* + the size of the rest of the Resumable + objSize, each counted once.
C2_TotalSizeIsSumOfRegions ==
  (lastCall.op = "Create" /\ frames[lastCall.frame] # <<>>) =>
     LET b  == lastCall.frame
         fr == Frame(b)
         expected == ResumableNodeSize + fr.call.numSlots * TypedValueSize
                     + ActRecSize + (ResumeAddrSize + OffsetAndSizeSize)
                     + fr.call.objSize
     IN  fr.contract =>
           /\ fr.requested = expected
           /\ fr.log[1] = <<"objMalloc", expected>>
           /\ size(mem[b]) = expected

\* a Create with local slots and a 40-byte object has just returned
C2_Witness ==
  /\ lastCall.op = "Create"
  /\ frames[lastCall.frame] # <<>>
  /\ Frame(lastCall.frame).contract
  /\ Frame(lastCall.frame).call.numSlots > 0
  /\ Frame(lastCall.frame).call.objSize = 40
  /\ size(mem[lastCall.frame]) = 120 + 16 * Frame(lastCall.frame).call.numSlots

\* C3: after a non-clone Create with resume address a and an in-bounds resume
\* offset o, and before any setResumeAddr, resumeOffset() returns o and
\* resumeAddr() returns a.
C3_CreateThenQuery ==
  /\ \A b \in LiveFrames :
       LET fr == Frame(b)
       IN  (~fr.call.clone /\ OffsetInBounds(fr) /\ fr.set = <<>>) =>
              /\ resumeOffsetAssert(mem[b])
              /\ resumeOffset(mem[b]) = fr.call.resumeOffset
              /\ resumeAddr(mem[b]) = fr.call.resumeAddr
  /\ (lastCall.op = "resumeOffset" /\ lastCall.frame \in LiveFrames) =>
       LET fr == Frame(lastCall.frame)
       IN  (~fr.call.clone /\ OffsetInBounds(fr) /\ fr.set = <<>>) =>
              lastCall.ret = <<fr.call.resumeOffset>>

\* resumeOffset() has returned 12 for a fresh frame created at offset 12
C3_Witness ==
  /\ lastCall.op = "resumeOffset"
  /\ lastCall.ret = <<12>>
  /\ lastCall.frame \in LiveFrames
  /\ ~Frame(lastCall.frame).call.clone
  /\ Frame(lastCall.frame).call.resumeOffset = 12
  /\ Frame(lastCall.frame).set = <<>>

\* the function of the frame that a call of Create was given as fp
ArgFunc(c) ==
  IF c.fp[1] = "stack" THEN CallerFrameTable[c.fp[2]].func ELSE func(ArAt(c.fp))

\* off is a resume offset outside the bytecode of function f
OutOfBounds(f, off) == f # NullFunc /\ ~contains(f, off)

\* the last call was a Create or a setResumeAddr with an offset out of bounds
LastCallOutOfBounds ==
  \/ /\ lastCall.op = "Create"
     /\ OutOfBounds(ArgFunc(lastCall.arg[1]), lastCall.arg[1].resumeOffset)
  \/ /\ lastCall.op = "setResumeAddr"
     /\ OutOfBounds(func(ActRecOf(mem[lastCall.frame])), lastCall.arg[1].off)

\* what C4 asks of a state: an out-of-bounds offset passed to Create or to
\* setResumeAddr faulted and was not stored, and resumeOffset() did not
\* return an out-of-bounds offset
BoundsFaultHolds ==
  /\ LastCallOutOfBounds =>
       /\ fault # NoFault
       /\ \A b \in LiveFrames :
            ~OutOfBounds(func(ActRecOf(mem[b])), resumeOffset(mem[b]))
  /\ (lastCall.op = "resumeOffset" /\ lastCall.ret # <<>>) =>
       ~OutOfBounds(func(ActRecOf(mem[lastCall.frame])), lastCall.ret[1])

\* C4 as stated: in every build, a resume offset outside the function's
\* bytecode faults in Create and in setResumeAddr instead of being stored,
\* and resumeOffset() never returns an out-of-bounds offset.
C4_AlwaysFaults == BoundsFaultHolds

\* C4 as amended: in a build where assert() is compiled in, a resume offset
\* outside the function's bytecode faults in Create and in setResumeAddr
\* instead of being stored, and resumeOffset() never returns an
\* out-of-bounds offset.
C4_FaultsWhenAssertsOn == debugBuild => BoundsFaultHolds

\* a debug build aborted in Create at the assert on resumeOffset
C4_Witness ==
  /\ debugBuild
  /\ LastCallOutOfBounds
  /\ fault.op = "Create"
  /\ fault.line = 90
  /\ frames[lastCall.frame] = <<>>

\* C5: after setResumeAddr calls on a live frame, each with an in-bounds
\* offset, resumeOffset() and resumeAddr() give the offset and the address of
\* the most recent call.
C5_LastSetWins ==
  /\ \A b \in LiveFrames :
       LET fr == Frame(b)
           f  == func(ActRecOf(mem[b]))
       IN  (/\ fr.set # <<>>
            /\ f # NullFunc
            /\ \A i \in DOMAIN fr.set : contains(f, fr.set[i].off)) =>
              /\ resumeOffsetAssert(mem[b])
              /\ resumeOffset(mem[b]) = fr.set[Len(fr.set)].off
              /\ resumeAddr(mem[b]) = fr.set[Len(fr.set)].addr
  /\ (lastCall.op = "resumeOffset" /\ lastCall.frame \in LiveFrames) =>
       LET fr == Frame(lastCall.frame)
           f  == func(ActRecOf(mem[lastCall.frame]))
       IN  (/\ fr.set # <<>>
            /\ f # NullFunc
            /\ \A i \in DOMAIN fr.set : contains(f, fr.set[i].off)) =>
              lastCall.ret = <<fr.set[Len(fr.set)].off>>

\* setResumeAddr was called with offset 12 and then with offset 55
C5_Witness ==
  \E b \in LiveFrames :
    /\ Len(Frame(b).set) = 2
    /\ Frame(b).set[1].off = 12
    /\ Frame(b).set[2].off = 55
    /\ resumeOffset(mem[b]) = 55

\* C6: a clone Create from a suspended frame gives a record with the
\* source's function and the resumed flag set, copies every ActRec field from
\* m_func onward, and writes neither m_sfp, nor m_savedRip, nor any local
\* slot of the new block.
C6_CloneCopiesTailOnly ==
  \A b \in LiveFrames :
    LET fr  == Frame(b)
        src == SourceActRec(fr)
        ar  == ActRecOf(mem[b])
    IN  (fr.call.clone /\ resumed(src)) =>
          /\ func(ar) = func(src)
          /\ resumed(ar)
          /\ \A name \in {"m_func", "m_flags", "m_varEnv"} :
               ArField(ar, name) = ArField(src, name)
          /\ ArField(ar, "m_sfp") = Uninit
          /\ ArField(ar, "m_savedRip") = Uninit
          /\ Len(LocalsOf(mem[b])) = fr.call.numSlots
          /\ \A i \in 1..fr.call.numSlots : LocalsOf(mem[b])[i] = Uninit

\* a suspended frame of F was cloned into a block with local slots
C6_Witness ==
  \E b \in LiveFrames :
    /\ Frame(b).call.clone
    /\ Frame(b).call.fp = <<"stack", 4>>
    /\ Frame(b).call.numSlots > 0
    /\ func(ActRecOf(mem[b])) = "F"
    /\ resumed(ActRecOf(mem[b]))

\* C7: after a non-clone Create the new block's locals equal the numSlots
\* slots below fp and the new ActRec equals the caller's in every field,
\* except that the resumed flag is set.
C7_FreshCopiesFrame ==
  \A b \in LiveFrames :
    LET fr  == Frame(b)
        src == SourceActRec(fr)
        ar  == ActRecOf(mem[b])
    IN  ~fr.call.clone =>
          /\ LocalsOf(mem[b]) = SourceLocals(fr)
          /\ \A name \in {"m_sfp", "m_savedRip", "m_func", "m_varEnv"} :
               ArField(ar, name) = ArField(src, name)
          /\ ArField(ar, "m_flags") = FlagsCell(TRUE)

\* a running frame with a local slot was suspended into a block
C7_Witness ==
  \E b \in LiveFrames :
    /\ ~Frame(b).call.clone
    /\ Frame(b).call.numSlots > 0
    /\ ~resumed(SourceActRec(Frame(b)))
    /\ LocalsOf(mem[b]) = SourceLocals(Frame(b))
    /\ resumed(ActRecOf(mem[b]))

\* the VarEnv hand-offs (VarEnv::suspend) among the steps of a Create
Suspends(log) == {i \in DOMAIN log : log[i][1] = "suspend"}

\* C8: a Create that meets its contract calls VarEnv::suspend exactly once,
\* with fp and the new ActRec, when it is not a clone, the function has
\* AttrMayUseVV and fp has a VarEnv; otherwise, and on every clone, it does
\* not call it.
C8_HandOffOnce ==
  \A b \in HandedOut :
    LET fr  == Frame(b)
        src == SourceActRec(fr)
        due == /\ ~fr.call.clone
               /\ FuncTable[func(src)].mayUseVV
               /\ hasVarEnv(src)
    IN  fr.contract =>
          /\ Cardinality(Suspends(fr.log)) = (IF due THEN 1 ELSE 0)
          /\ \A i \in Suspends(fr.log) :
               fr.log[i] = <<"suspend", fr.call.fp,
                             b + ResumableNodeSize
                               + fr.call.numSlots * TypedValueSize>>

\* a frame of F with a VarEnv was suspended and handed off once
C8_Witness ==
  \E b \in HandedOut :
    /\ Frame(b).contract
    /\ ~Frame(b).call.clone
    /\ hasVarEnv(SourceActRec(Frame(b)))
    /\ Cardinality(Suspends(Frame(b).log)) = 1

\* C9: Destroy fails fatally and releases nothing whenever the size it is
\* about to release differs from the size the frame's Create allocated.
C9_MismatchedSizeFaults ==
  (lastCall.op = "Destroy" /\ lastCall.arg[1] # Frame(lastCall.frame).requested)
    => (fault # NoFault /\ lastCall.released = <<>>)

\* C10: a second Destroy of the same frame is detected and releases nothing.
C10_SecondDestroyDetected ==
  (lastCall.op = "Destroy" /\ Frame(lastCall.frame).teardowns > 1)
    => (fault # NoFault /\ lastCall.released = <<>>)

\* C11: with blocks aligned to 16 bytes, every handle Create returns is the
\* block base plus the ResumableNode, the frame and sizeof(Resumable), it is
\* aligned to 16 bytes, and the ActRec is at offset 0 of the Resumable: the
\* ActRec pointer Create hands out is the handle minus sizeof(Resumable).
C11_HandleLayout ==
  \A b \in HandedOut :
    LET fr        == Frame(b)
        frameSize == fr.call.numSlots * TypedValueSize
    IN  b % ResumableAlign = 0 =>
          /\ fr.log[Len(fr.log)] = <<"return", fr.handle>>
          /\ fr.handle = b + ResumableNodeSize + frameSize + SizeofResumable
          /\ fr.handle % ResumableAlign = 0
          /\ arOff = 0
          /\ \A i \in Suspends(fr.log) :
               fr.log[i][3] = fr.handle - dataOff

\* a frame with locals was created, its ActRec pointer was handed to the
\* VarEnv, and its handle was returned
C11_Witness ==
  \E b \in HandedOut :
    /\ b % ResumableAlign = 0
    /\ Frame(b).call.numSlots > 0
    /\ Suspends(Frame(b).log) # {}
    /\ Frame(b).log[Len(Frame(b).log)][1] = "return"

\* the call breaks a precondition that the head of Create asserts
HeadViolation(c) ==
  \/ resumed(ArAt(c.fp)) # c.clone
  \/ ArgFunc(c) = NullFunc
  \/ ~FuncTable[ArgFunc(c)].isResumable
  \/ OutOfBounds(ArgFunc(c), c.resumeOffset)

\* the call is a non-clone Create instantiated with mayUseVV = false for a
\* function that has AttrMayUseVV
VVViolation(c) ==
  /\ ~c.clone /\ ~c.mayUseVV
  /\ ArgFunc(c) # NullFunc /\ FuncTable[ArgFunc(c)].mayUseVV

\* the step is a call of Create
CreateStep == lastCall'.op = "Create" /\ nOps' # nOps

\* the step changes neither the allocator nor any block or frame
HeapUntouched == allocd' = allocd /\ mem' = mem /\ frames' = frames

\* C12 as stated: every Create that breaks its contract is detected before
\* it allocates or writes, leaving the allocator and the frames unchanged.
C12_DetectedBeforeAllocation ==
  [][ (CreateStep /\ (HeadViolation(lastCall'.arg[1])
                       \/ VVViolation(lastCall'.arg[1])))
        => (fault'.op = "Create" /\ HeapUntouched) ]_vars

\* C12 amended: with asserts compiled in, a Create breaking a precondition
\* asserted at its head faults before it allocates or writes, leaving the
\* allocator and the frames unchanged; one breaking only the mayUseVV
\* precondition faults after the allocation and the copy, before the header
\* is written, and returns no handle.
C12_HeadFaultsBeforeAllocation ==
  [][ (debugBuild /\ CreateStep) =>
        LET c == lastCall'.arg[1]
            b == lastCall'.frame
        IN  /\ HeadViolation(c) =>
                  /\ fault'.op = "Create" /\ fault'.line \in {86, 88, 89, 90}
                  /\ fault'.log = <<>>
                  /\ HeapUntouched
            /\ (~HeadViolation(c) /\ VVViolation(c)) =>
                  /\ fault'.op = "Create" /\ fault'.line = 113
                  /\ fault'.log = << <<"objMalloc",
                                       totalSizeOf(c.numSlots, c.objSize)>>,
                                     <<"node">>, <<"wordcpy", "frame">>,
                                     <<"setResumed">> >>
                  /\ b \in allocd' \ allocd
                  /\ frames'[b] = <<>> ]_vars

\* with asserts compiled in, a Create with an out-of-bounds offset faulted
\* while a frame made by an earlier Create exists
C12_Witness ==
  /\ debugBuild
  /\ fault.op = "Create" /\ fault.line = 90 /\ fault.log = <<>>
  /\ lastCall.op = "Create" /\ HeadViolation(lastCall.arg[1])
  /\ LiveFrames # {}

\* the positions of the steps of one kind among the steps of a Create
StepsOf(log, kind) == {i \in DOMAIN log : log[i][1] = kind}

\* the node, the function and flags of the ActRec, the resume address and
\* the packed offset and size of a block hold what was written to them
Populated(blk) ==
  /\ blk.node.framesize # Uninit
  /\ blk.node.kind # Uninit
  /\ ArField(ActRecOf(blk), "m_func") # Uninit
  /\ ArField(ActRecOf(blk), "m_flags") # Uninit
  /\ blk.m_resumeAddr # Uninit
  /\ blk.m_offsetAndSize # Uninit

\* C13: Create writes the header after the node, the ActRec copy and the
\* VarEnv hand-off and returns the handle last, so every frame whose handle
\* a caller holds has its node, ActRec function and flags, resume address,
\* resume offset and size populated.
C13_HeaderThenReturn ==
  \A b \in LiveFrames :
    LET log == Frame(b).log
    IN  /\ StepsOf(log, "wordcpy") # {}
        /\ Cardinality(StepsOf(log, "header")) = 1
        /\ StepsOf(log, "return") = {Len(log)}
        /\ \A h \in StepsOf(log, "header") :
             /\ h < Len(log)
             /\ \A i \in StepsOf(log, "node") \cup StepsOf(log, "wordcpy")
                        \cup StepsOf(log, "setResumed")
                        \cup StepsOf(log, "suspend") : i < h
        /\ Populated(mem[b])

\* a frame made with a VarEnv hand-off and a clone are both held
C13_Witness ==
  /\ \E b \in LiveFrames : StepsOf(Frame(b).log, "suspend") # {}
  /\ \E b \in LiveFrames : Frame(b).call.clone

\* C14: a call of Destroy computes the base from the handle and the size,
\* then runs the destructor of the object, then releases the block; the
\* destructor runs before the release and there is exactly one release.
C14_TeardownThenRelease ==
  lastCall.op = "Destroy" =>
    /\ Len(lastCall.released) = 1
    /\ LET rel == lastCall.released[1]
            fr  == Frame(lastCall.frame)
            log == rel.log
        IN  /\ rel.base = fr.handle + fr.call.objSize - lastCall.arg[1]
            /\ StepsOf(log, "base") = {1}
            /\ log[1] = <<"base", rel.base>>
            /\ Cardinality(StepsOf(log, "~T")) = 1
            /\ Cardinality(StepsOf(log, "objFree")) = 1
            /\ \A t \in StepsOf(log, "~T"), r \in StepsOf(log, "objFree") :
                 /\ 1 < t /\ t < r
                 /\ log[r] = <<"objFree", rel.base, lastCall.arg[1]>>
            /\ rel.base \notin allocd

\* a live frame was destroyed with the size read from its header
C14_Witness ==
  /\ lastCall.op = "Destroy"
  /\ lastCall.released[1].wasLive
  /\ lastCall.arg[1] = Frame(lastCall.frame).requested
  /\ lastCall.released[1].base = lastCall.frame

\* the step is a call of setResumeAddr that was not stopped by its assert
SetResumeAddrStep ==
  lastCall'.op = "setResumeAddr" /\ nOps' # nOps /\ fault' = NoFault

\* C15: setResumeAddr changes the resume address and the resume offset and
\* nothing else: the m_size half of the packed word, the ActRec, the locals
\* and the node of the frame, every other block and the allocator are as
\* before, and size() of a frame whose Create met its contract is still the
\* total that Create computed.
C15_SetKeepsTheRest ==
  [][ SetResumeAddrStep =>
        LET b  == lastCall'.frame
            rp == lastCall'.arg[1]
        IN  /\ resumeAddr(mem'[b]) = rp.addr
            /\ resumeOffset(mem'[b]) = rp.off
            /\ size(mem'[b]) = size(mem[b])
            /\ mem'[b].m_offsetAndSize[3] = mem[b].m_offsetAndSize[3]
            /\ mem'[b].m_offsetAndSize[4] = mem[b].m_offsetAndSize[4]
            /\ ActRecOf(mem'[b]) = ActRecOf(mem[b])
            /\ LocalsOf(mem'[b]) = LocalsOf(mem[b])
            /\ mem'[b].node = mem[b].node
            /\ \A x \in HeapBases \ {b} : mem'[x] = mem[x]
            /\ allocd' = allocd
            /\ Frame(b).contract =>
                  size(mem'[b]) = totalSizeOf(Frame(b).call.numSlots,
                                              Frame(b).call.objSize) ]_vars

\* setResumeAddr was called twice on a frame with locals, with a resume
\* point other than the one Create stored
C15_Witness ==
  \E b \in LiveFrames :
    /\ Frame(b).contract
    /\ Frame(b).call.numSlots > 0
    /\ Len(Frame(b).set) = 2
    /\ lastCall.op = "setResumeAddr" /\ lastCall.frame = b
    /\ resumeOffset(mem[b]) # Frame(b).call.resumeOffset
    /\ size(mem[b]) = Frame(b).requested

\* C16: for a total below 2^31 and an offset within the bytecode of the
\* function, the word Create packs as (totalSize << 32 | resumeOffset) reads
\* back as both: size() is the total and resumeOffset() the offset, the low
\* half holding exactly the bits of the offset and the high half exactly
\* the bits of the total.
C16_PackedWordDecodes ==
  \A b \in HandedOut :
    LET fr    == Frame(b)
        total == totalSizeOf(fr.call.numSlots, fr.call.objSize)
        off   == fr.call.resumeOffset
        w     == mem[b].m_offsetAndSize
    IN  (0 <= total /\ total <= Int32Max /\ OffsetInBounds(fr)
         /\ fr.set = <<>>) =>
          /\ size(mem[b]) = total
          /\ resumeOffset(mem[b]) = off
          /\ <<w[1], w[2]>> = <<off % Limb, off \div Limb>>
          /\ <<w[3], w[4]>> = <<total % Limb, total \div Limb>>

\* the largest total was packed with the largest offset of the function,
\* and the smallest total with offset 0
C16_Witness ==
  /\ \E b \in HandedOut :
       /\ Frame(b).requested = Int32Max
       /\ Frame(b).call.resumeOffset = Int32Max - 1
       /\ contains(func(SourceActRec(Frame(b))), Int32Max - 1)
  /\ \E b \in HandedOut :
       /\ Frame(b).requested < Limb
       /\ Frame(b).call.resumeOffset = 0

====
